---- MODULE Spec2Model ----
(***************************************************************************)
(* liburing-rs: the submission / completion queue views (src/src/queue.rs, *)
(* src/src/uring.rs) and the asynchronous multiplexers built on them       *)
(* (src/src/async_io/tokio_impl.rs, src/src/async_io/async_std_impl.rs).   *)
(*                                                                         *)
(* One ring is modelled: the user-side submission indices, the entries the *)
(* kernel has taken and not completed, and the completion buffer.  On top  *)
(* of it sit the tokio multiplexer's table of wakers and tag counter, the  *)
(* futures returned by submit_op, the executor's run queue and the part of *)
(* the tokio reactor the multiplexer uses (the readiness flag of AsyncFd   *)
(* and its single reader waker).                                           *)
(***************************************************************************)
EXTENDS Integers, Sequences, FiniteSets, TLC

\* ------------------------------------------------------------------ bounds

\* Number of futures submit_op hands out on the ring.
NumFutures == 3

\* The ring has 2^RingOrder submission entries: IoUring::new(entries) rounds
\* the request up to a power of two.
RingOrder == 1

RingEntries == 2 ^ RingOrder

\* The tag counter is a u64 advanced with wrapping_add; the model keeps the
\* wrap and scales the width down to TagBits bits.
TagBits == 1

TagModulus == 2 ^ TagBits

\* The ring indices are u32 and wrap; the model keeps the wrap and scales
\* the width down to IdxBits bits.
IdxBits == 2

IdxModulus == 2 ^ IdxBits

Futures == 1..NumFutures

Tags == 0..(TagModulus - 1)

\* Result codes a completion can carry: a negative errno or a success value.
Results == {-1, 0}

\* Most operations a caller of the queue views keeps outstanding at once.
MaxOutstanding == 3

\* Tags a caller of the queue views stamps on its slots (set_user_data).
UserTags == {0, 1}

\* Buffer lengths a caller passes to peek_batch.
BatchLens == 1..RingEntries

VARIABLES
    sq_khead,        \* *sq.khead: submission entries the kernel has consumed
    sq_sqe_tail,     \* sq.sqe_tail: submission entries handed out by get_sqe
    sq_entries,      \* the tags stamped on the entries between khead and sqe_tail
    inflight,        \* operations the kernel holds: tag -> how many
    cq,              \* completion buffer between head and tail, oldest first
    cq_head,         \* *cq.khead: completions retired with io_uring_cqe_seen
    wakers,          \* AsyncIoUringInner.wakers: HashMap<u64, Waker>
    next_user_data,  \* AsyncIoUringInner.next_user_data
    op,              \* SubmitFuture.op, per future: "NotCreated", "Some", "None"
    user_data,       \* SubmitFuture.user_data: {} is None, {t} is Some(t)
    output,          \* what the last poll of the future returned
    scheduled,       \* the executor's run queue: tasks woken and not yet polled
    pc,              \* where the future's current activation stands
    lock,            \* holder of the Mutex around the ring, {} when free
    fd_ready,        \* AsyncFd: the cached read readiness of the ring fd
    reader_waker,    \* AsyncFd: the waker of the latest pending poll_read_ready
    epoll_event,     \* an edge on the ring fd the reactor has not dispatched yet
    shutdown,        \* the runtime's I/O driver has shut down
    dropped,         \* futures the caller dropped before they resolved
    q_ret,           \* what the last queue view call returned to the caller
    q_cqe_live,      \* the caller holds a Cqe (it borrows the completion queue)
    q_batch,         \* raw pointers peek_batch handed out to unretired records
    q_wait,          \* the submit_and_wait call the caller is blocked in
    arcs,            \* owners of the ring: 0 is the handle, f the future f
    created,         \* what the constructor returned: "NotCalled", "Ok", an error
    init_rets,       \* return codes of the io_uring_queue_init calls made
    exit_calls,      \* number of io_uring_queue_exit calls made
    teardown,        \* what the drops did to the ring fd, in the order they ran
    std_ops          \* async-std: the submit_op call behind each entry of the ring

sqVars == <<sq_khead, sq_sqe_tail, sq_entries>>

ringVars == <<sq_khead, sq_sqe_tail, sq_entries, inflight, cq, cq_head>>

muxVars == <<wakers, next_user_data>>

reactorVars == <<fd_ready, reader_waker, epoll_event, shutdown>>

callerVars == <<q_ret, q_cqe_live, q_batch, q_wait>>

lifeVars == <<arcs, created, init_rets, exit_calls, teardown>>

vars == <<sq_khead, sq_sqe_tail, sq_entries, inflight, cq, cq_head, wakers,
          next_user_data, op, user_data, output, scheduled, pc, lock, fd_ready,
          reader_waker, epoll_event, shutdown, dropped, q_ret, q_cqe_live,
          q_batch, q_wait, arcs, created, init_rets, exit_calls, teardown,
          std_ops>>

\* ----------------------------------------------------------- poll results

Pending == [ready |-> FALSE, ok |-> FALSE, val |-> 0, err |-> "none"]

ReadyOk(r) == [ready |-> TRUE, ok |-> TRUE, val |-> r, err |-> "none"]

ReadyErr(e) == [ready |-> TRUE, ok |-> FALSE, val |-> 0, err |-> e]

\* ------------------------------------------------------------ HashMap ops

\* Mutant of MapInsert: nothing is inserted.
MapInsertSkipped(m, k, v) == m

MapInsert(m, k, v) == [x \in (DOMAIN m) \cup {k} |-> IF x = k THEN v ELSE m[x]]

MapRemove(m, k) == [x \in (DOMAIN m) \ {k} |-> m[x]]

EmptyMap == [x \in {} |-> 0]

\* ------------------------------------------------------ submission queue

\* Mutant of space_left: the indices are subtracted without the wrap.
space_left_no_wrap == RingEntries - (sq_sqe_tail - sq_khead)

\* SubmissionQueue::space_left: sq.ring_entries - (tail.wrapping_sub(head))
space_left == RingEntries - ((sq_sqe_tail - sq_khead) % IdxModulus)

\* SubmissionQueue::is_full
is_full == space_left = 0

\* io_uring_get_sqe returns NULL when sqe_tail + 1 - head exceeds the
\* number of entries; otherwise it hands out sqes[sqe_tail & mask] and
\* advances sqe_tail.
io_uring_get_sqe_is_null ==
    ((sq_sqe_tail + 1 - sq_khead) % IdxModulus) > RingEntries

\* Mutant of get_sqe_is_some: the null pointer is not checked.
get_sqe_unchecked == TRUE

\* SubmissionQueue::get_sqe: None when the pointer is null, else Some.
get_sqe_is_some == ~io_uring_get_sqe_is_null

\* Mutant of get_sqe_or_err_is_ok: the failed acquisition is not reported.
get_sqe_or_err_never_fails == TRUE

\* get_sqe_or_err: Ok(slot) or Err(SubmissionQueueFull)
get_sqe_or_err_is_ok == get_sqe_is_some

\* Mutant of check_ret_is_ok: a negative return code is passed on as a count.
check_ret_accepts_all(ret) == TRUE

\* check_ret: a negative return code is the error, any other the count.
check_ret_is_ok(ret) == ret >= 0

\* The return codes of io_uring_submit with pending entries between khead
\* and the tail: an errno, or the number of entries the kernel consumed,
\* which is at least one of them.
SubmitRets(pending) == {-1} \cup (IF pending = 0 THEN {0} ELSE 1..pending)

\* Mutant of set_user_data: the tag is not written to the slot, which keeps
\* the zero it was prepared with.
set_user_data_skipped(data) == 0

\* SqeExt::set_user_data: io_uring_sqe_set_data64 stores the u64 in the slot.
set_user_data(data) == data

\* The submission side after a slot acquisition that stamps tag t on the
\* slot, when io_uring_get_sqe did hand one out.
SqAfterGet(t) ==
    IF io_uring_get_sqe_is_null
    THEN [tail |-> sq_sqe_tail, entries |-> sq_entries]
    ELSE [tail |-> (sq_sqe_tail + 1) % IdxModulus,
          entries |-> Append(sq_entries, set_user_data(t))]

\* The kernel takes the given entries.
KernelTake(entries, held) ==
    [t \in Tags |-> held[t] + Cardinality({i \in 1..Len(entries) : entries[i] = t})]

\* io_uring_submit on the submission side sq (as SqAfterGet gives it) with
\* return code ret: the kernel consumes the first ret entries, none when it
\* fails.
EnterKernel(sq, ret) ==
    /\ sq_sqe_tail' = sq.tail
    /\ IF ret >= 0
       THEN /\ sq_khead' = (sq_khead + ret) % IdxModulus
            /\ sq_entries' = SubSeq(sq.entries, ret + 1, Len(sq.entries))
            /\ inflight' = KernelTake(SubSeq(sq.entries, 1, ret), inflight)
       ELSE /\ sq_entries' = sq.entries
            /\ UNCHANGED <<sq_khead, inflight>>

\* -------------------------------------------------------------- the kernel

\* The kernel completes one operation it holds: the completion record carries
\* the tag of the entry and a result code, and the ring fd becomes readable.
KernelComplete(t, r) ==
    /\ exit_calls = 0
    /\ inflight[t] > 0
    /\ inflight' = [inflight EXCEPT ![t] = @ - 1]
    /\ cq' = Append(cq, [user_data |-> t, res |-> r])
    /\ epoll_event' = TRUE
    /\ UNCHANGED <<sqVars, cq_head, muxVars, op, user_data, output, scheduled,
                   pc, lock, fd_ready, reader_waker, shutdown, dropped,
                   callerVars, lifeVars, std_ops>>

\* ------------------------------------------------- executor and reactor

\* Mutant of Wake: the wakers are dropped without being invoked.
WakeNobody(sched, ws) == sched

\* Waker::wake on each task of ws: a task that has not finished is put on the
\* run queue; a task that dropped its future does not poll it again.
Wake(sched, ws) ==
    [g \in Futures |->
        sched[g] \/ (g \in ws /\ ~output[g].ready /\ g \notin dropped)]

\* The reactor dispatches the edge on the ring fd: AsyncFd's readiness is
\* set and the reader waker, if any, is taken and woken.
ReactorDispatch ==
    /\ epoll_event
    /\ ~shutdown
    /\ epoll_event' = FALSE
    /\ fd_ready' = TRUE
    /\ scheduled' = Wake(scheduled, reader_waker)
    /\ reader_waker' = {}
    /\ UNCHANGED <<ringVars, muxVars, op, user_data, output, pc, lock,
                   shutdown, dropped, callerVars, lifeVars, std_ops>>

\* The runtime shuts its I/O driver down: every waiter is woken and
\* poll_read_ready fails from now on.
RuntimeShutdown ==
    /\ ~shutdown
    /\ shutdown' = TRUE
    /\ scheduled' = Wake(scheduled, reader_waker)
    /\ reader_waker' = {}
    /\ UNCHANGED <<ringVars, muxVars, op, user_data, output, pc, lock,
                   fd_ready, epoll_event, dropped, callerVars, lifeVars, std_ops>>

\* ------------------------------------------------ tokio: AsyncIoUring

\* submit_op on the handle: a SubmitFuture holding a clone of the Arc, the
\* operation and no tag; the caller awaits it, so its task is polled.  The
\* tasks are interchangeable until their first poll: the futures are
\* numbered in the order they are created and first polled.
SubmitOp(f) ==
    /\ 0 \in arcs
    /\ op[f] = "NotCreated"
    /\ \A g \in Futures : g < f => op[g] # "NotCreated"
    /\ op' = [op EXCEPT ![f] = "Some"]
    /\ arcs' = arcs \cup {f}
    /\ scheduled' = [scheduled EXCEPT ![f] = TRUE]
    /\ UNCHANGED <<ringVars, muxVars, user_data, output, pc, lock,
                   reactorVars, dropped, callerVars, created, init_rets,
                   exit_calls, teardown, std_ops>>

\* Mutant of NextTag: the counter is not advanced.
NextTagStuck(n) == n

\* inner.next_user_data.wrapping_add(1)
NextTag(n) == (n + 1) % TagModulus

\* future.user_data.unwrap()
TheTag(f) == CHOOSE t \in user_data[f] : TRUE

\* Mutant of IsOwn: the first completion read is taken as the own one.
IsOwnAny(e, own) == TRUE

\* cqe_user_data == user_data
IsOwn(e, own) == e.user_data = own

\* Mutant of Deliver: a negative result code is converted into an error, as
\* Cqe::into_result does.
DeliverConverted(r) == IF r < 0 THEN ReadyErr("Io") ELSE ReadyOk(r)

\* The value a future resolves with when the drain reads its own completion.
Deliver(r) == ReadyOk(r)

\* The drain loop of poll: each completion peek_cqe returns is retired when
\* its Cqe is dropped at the end of the map closure; the own one ends the
\* loop, a foreign one wakes and removes the waker registered under its tag.
RECURSIVE Drain(_, _, _, _)
Drain(q, w, own, woken) ==
    IF q = <<>>
    THEN [cq |-> q, wakers |-> w, woken |-> woken, found |-> FALSE, result |-> 0]
    ELSE LET e == Head(q) IN
         IF IsOwn(e, own)
         THEN [cq |-> Tail(q), wakers |-> MapRemove(w, own), woken |-> woken,
               found |-> TRUE, result |-> e.res]
         ELSE Drain(Tail(q), MapRemove(w, e.user_data), own,
                    IF e.user_data \in DOMAIN w
                    THEN woken \cup {w[e.user_data]} ELSE woken)

\* Mutant of take: the operation is left in the future.
take_leaves(o) == o

\* Option::take on future.op: what is left in the field once the operation
\* has been moved out.
take(o) == "None"

\* poll, entry: the lock is taken.  A future that still holds its operation
\* takes the next tag, acquires a slot, stamps and flushes it, and registers
\* its waker; a failed acquisition or flush ends the poll with the error.
PollStart(f) ==
    /\ op[f] # "NotCreated"
    /\ ~output[f].ready
    /\ scheduled[f]
    /\ pc[f] = "idle"
    /\ lock = {}
    /\ f \notin dropped
    /\ op[f] = "Some" =>
          \A g \in Futures : g < f => (op[g] = "None" \/ g \in dropped)
    /\ scheduled' = [scheduled EXCEPT ![f] = FALSE]
    /\ IF op[f] = "Some"
       THEN LET tag == next_user_data
                sq == SqAfterGet(tag)
            IN
            /\ op' = [op EXCEPT ![f] = take(op[f])]
            /\ next_user_data' = NextTag(next_user_data)
            /\ user_data' = [user_data EXCEPT ![f] = {tag}]
            /\ IF ~get_sqe_or_err_is_ok
               THEN /\ output' = [output EXCEPT ![f] = ReadyErr("SubmissionQueueFull")]
                    /\ UNCHANGED <<ringVars, wakers, pc, lock>>
               ELSE \E ret \in SubmitRets(Len(sq.entries)) :
                    /\ EnterKernel(sq, ret)
                    /\ UNCHANGED <<cq, cq_head>>
                    /\ IF ~check_ret_is_ok(ret)
                       THEN /\ output' = [output EXCEPT ![f] = ReadyErr("Io")]
                            /\ UNCHANGED <<wakers, pc, lock>>
                       ELSE /\ wakers' = MapInsert(wakers, tag, f)
                            /\ pc' = [pc EXCEPT ![f] = "drain"]
                            /\ lock' = {f}
                            /\ UNCHANGED output
       ELSE /\ pc' = [pc EXCEPT ![f] = "drain"]
            /\ lock' = {f}
            /\ UNCHANGED <<ringVars, muxVars, op, user_data, output>>
    /\ UNCHANGED <<reactorVars, dropped, callerVars, lifeVars, std_ops>>

\* poll, the drain loop: resolves with the own completion's result code, or
\* goes on to poll_read_ready.
PollDrain(f) ==
    /\ pc[f] = "drain"
    /\ LET d == Drain(cq, wakers, TheTag(f), {}) IN
       /\ cq' = d.cq
       /\ cq_head' = (cq_head + Len(cq) - Len(d.cq)) % IdxModulus
       /\ wakers' = d.wakers
       /\ scheduled' = Wake(scheduled, d.woken)
       /\ IF d.found
          THEN /\ output' = [output EXCEPT ![f] = Deliver(d.result)]
               /\ pc' = [pc EXCEPT ![f] = "idle"]
               /\ lock' = {}
          ELSE /\ pc' = [pc EXCEPT ![f] = "read_ready"]
               /\ UNCHANGED <<output, lock>>
    /\ UNCHANGED <<sqVars, inflight, next_user_data, op, user_data,
                   reactorVars, dropped, callerVars, lifeVars, std_ops>>

\* poll, after a drain that did not resolve: poll_read_ready.  Ready: the
\* readiness is cleared; Pending: the reactor keeps the waker.  Either way
\* the waker is registered again in the table and poll returns Pending.  A
\* reactor error ends the poll with it.  The lock guard is a local of poll:
\* it is released when poll returns.
PollReadReady(f) ==
    /\ pc[f] = "read_ready"
    /\ pc' = [pc EXCEPT ![f] = "idle"]
    /\ lock' = {}
    /\ IF shutdown
       THEN /\ output' = [output EXCEPT ![f] = ReadyErr("Io")]
            /\ UNCHANGED <<wakers, fd_ready, reader_waker>>
       ELSE /\ wakers' = MapInsert(wakers, TheTag(f), f)
            /\ output' = [output EXCEPT ![f] = Pending]
            /\ IF fd_ready
               THEN fd_ready' = FALSE /\ UNCHANGED reader_waker
               ELSE reader_waker' = {f} /\ UNCHANGED fd_ready
    /\ UNCHANGED <<ringVars, next_user_data, op, user_data, scheduled,
                   epoll_event, shutdown, dropped, callerVars, lifeVars, std_ops>>

\* ------------------------------------------- construction and teardown

\* Return codes of io_uring_queue_init.
InitRets == {-1, 0}

\* Mutant of with_flags_is_ok: the return code of the setup is not checked.
with_flags_assumes_init(ret) == TRUE

\* IoUring::with_flags / with_params: check_ret(ret).map_err(Error::Setup)?
with_flags_is_ok(ret) == check_ret_is_ok(ret)

\* The fields of AsyncIoUringInner in the order of their declaration, which
\* is the order in which they are dropped when the struct is.
InnerFields == <<"ring", "async_fd", "wakers", "next_user_data">>

\* What the drop of a field does to the ring fd: Drop for IoUring calls
\* io_uring_queue_exit, which closes it; the drop of the AsyncFd takes its
\* registration out of the reactor; the other fields do not touch it.
DropEffect(field) ==
    IF field = "ring" THEN <<"queue_exit">>
    ELSE IF field = "async_fd" THEN <<"deregister">>
    ELSE <<>>

\* The effects of dropping the given fields, one after the other.
RECURSIVE DropEffects(_)
DropEffects(fields) ==
    IF fields = <<>> THEN <<>>
    ELSE DropEffect(Head(fields)) \o DropEffects(Tail(fields))

\* Mutant of drop_ring: the ring is let go without its teardown.
drop_ring_leaks(n) == n

\* Drop for IoUring: io_uring_queue_exit is called on the ring; n is the
\* number of calls made before.
drop_ring(n) == n + 1

\* AsyncIoUring::new: IoUring::new, then AsyncFd::with_interest on the ring
\* fd.  A failed setup returns Err(Setup) and builds no IoUring.  When the
\* reactor refuses the fd the IoUring, a local, is dropped on the way out
\* and Err(Io) is returned.  Otherwise the handle owns the new Arc.
AsyncNew ==
    /\ created = "NotCalled"
    /\ \E ret \in InitRets, fd_ok \in BOOLEAN :
        /\ init_rets' = Append(init_rets, ret)
        /\ IF ~with_flags_is_ok(ret)
           THEN /\ created' = "ErrSetup"
                /\ UNCHANGED <<arcs, exit_calls, teardown>>
           ELSE IF ~fd_ok
           THEN /\ created' = "ErrIo"
                /\ exit_calls' = drop_ring(exit_calls)
                /\ teardown' = teardown \o DropEffects(<<"ring">>)
                /\ UNCHANGED arcs
           ELSE /\ created' = "Ok"
                /\ arcs' = {0}
                /\ UNCHANGED <<exit_calls, teardown>>
    /\ UNCHANGED <<ringVars, muxVars, op, user_data, output, scheduled, pc,
                   lock, reactorVars, dropped, callerVars, std_ops>>

\* Mutant of IsLastOwner: every release is taken for the last one.
EveryOwnerIsLast(rest) == TRUE

\* Arc: the shared value is dropped when no owner is left.
IsLastOwner(rest) == rest = {}

\* An owner lets go of its Arc: the handle when it is dropped, a future when
\* the caller drops it, resolved or not; a future is not dropped in the
\* middle of its poll.  SubmitFuture has no Drop of its own.  With the last
\* owner gone the AsyncIoUringInner is dropped: its table of wakers, and
\* its IoUring, whose Drop calls io_uring_queue_exit.
Release(o) ==
    /\ o \in arcs
    /\ o \in Futures => pc[o] = "idle"
    /\ arcs' = arcs \ {o}
    /\ IF IsLastOwner(arcs \ {o})
       THEN /\ exit_calls' = drop_ring(exit_calls)
            /\ teardown' = teardown \o DropEffects(InnerFields)
            /\ wakers' = EmptyMap
       ELSE UNCHANGED <<exit_calls, teardown, wakers>>
    /\ IF o \in Futures /\ ~output[o].ready
       THEN /\ dropped' = dropped \cup {o}
            /\ scheduled' = [scheduled EXCEPT ![o] = FALSE]
       ELSE UNCHANGED <<dropped, scheduled>>
    /\ UNCHANGED <<ringVars, next_user_data, op, user_data, output, pc, lock,
                   reactorVars, callerVars, created, init_rets, std_ops>>

\* ------------------------------------ the queue views, used directly

NoCall == [call |-> "none", some |-> FALSE, n |-> 0]

\* The caller is in no submit_and_wait call.
NoWait == [nr |-> 0, ret |-> 0, blocked |-> FALSE]

RECURSIVE SumHeld(_, _)
SumHeld(held, ts) ==
    IF ts = {} THEN 0
    ELSE LET t == CHOOSE x \in ts : TRUE IN held[t] + SumHeld(held, ts \ {t})

\* Operations of the caller that have not been retired yet.
Outstanding == Len(sq_entries) + SumHeld(inflight, Tags) + Len(cq)

Min(a, b) == IF a < b THEN a ELSE b

Max(a, b) == IF a < b THEN b ELSE a

\* SubmissionQueue::get_sqe, and set_user_data(t) on the slot when there is
\* one.  The slot is sqes[sqe_tail & mask].
GetSqe(t) ==
    /\ ~q_cqe_live
    /\ ~q_wait.blocked
    /\ io_uring_get_sqe_is_null \/ Outstanding < MaxOutstanding
    /\ sq_sqe_tail' = SqAfterGet(t).tail
    /\ sq_entries' = SqAfterGet(t).entries
    /\ q_ret' = [call |-> "get_sqe", some |-> get_sqe_is_some,
                 n |-> sq_sqe_tail % RingEntries]
    /\ UNCHANGED <<sq_khead, inflight, cq, cq_head, muxVars, op, user_data,
                   output, scheduled, pc, lock, reactorVars, dropped,
                   q_cqe_live, q_batch, q_wait, lifeVars, std_ops>>

\* IoUring::submit (SubmissionQueue::submit does the same).
Submit ==
    /\ ~q_cqe_live
    /\ ~q_wait.blocked
    /\ \E ret \in SubmitRets(Len(sq_entries)) :
        /\ EnterKernel([tail |-> sq_sqe_tail, entries |-> sq_entries], ret)
        /\ q_ret' = [call |-> "submit", some |-> check_ret_is_ok(ret), n |-> ret]
    /\ UNCHANGED <<cq, cq_head, muxVars, op, user_data, output, scheduled, pc,
                   lock, reactorVars, dropped, q_cqe_live, q_batch,
                   q_wait, lifeVars, std_ops>>

\* Counts a caller passes to submit_and_wait as wait_nr.
WaitNrs == 1..RingEntries

\* IoUring::submit_and_wait(wait_nr), up to the wait: io_uring_submit_and_wait
\* flushes as io_uring_submit does, in one io_uring_enter that also asks for
\* wait_nr completions.  A failed flush returns the error; a flush the
\* kernel cut short returns the count consumed without waiting; after a
\* flush in full the caller waits.
SubmitAndWaitEnter(wait_nr) ==
    /\ ~q_cqe_live
    /\ ~q_wait.blocked
    /\ \E ret \in SubmitRets(Len(sq_entries)) :
        /\ EnterKernel([tail |-> sq_sqe_tail, entries |-> sq_entries], ret)
        /\ IF check_ret_is_ok(ret) /\ ret = Len(sq_entries)
           THEN /\ q_wait' = [nr |-> wait_nr, ret |-> ret, blocked |-> TRUE]
                /\ UNCHANGED q_ret
           ELSE /\ q_wait' = NoWait
                /\ q_ret' = [call |-> "submit_and_wait",
                             some |-> check_ret_is_ok(ret), n |-> ret]
    /\ UNCHANGED <<cq, cq_head, muxVars, op, user_data, output, scheduled, pc,
                   lock, reactorVars, dropped, q_cqe_live, q_batch, lifeVars, std_ops>>

\* The return code of the io_uring_enter a caller waits in: the wait ends
\* when wait_nr completions are there, or when a signal interrupts it; an
\* interrupted call returns the count it had flushed, -EINTR when that
\* count is 0.
WaitRets(w) ==
    (IF Len(cq) >= w.nr THEN {w.ret} ELSE {})
        \cup {IF w.ret > 0 THEN w.ret ELSE -4}

\* IoUring::submit_and_wait, the return: check_ret on the return code.
SubmitAndWaitReturn ==
    /\ q_wait.blocked
    /\ \E ret \in WaitRets(q_wait) :
        /\ q_wait' = NoWait
        /\ q_ret' = [call |-> "submit_and_wait",
                     some |-> check_ret_is_ok(ret), n |-> ret]
    /\ UNCHANGED <<ringVars, muxVars, op, user_data, output, scheduled, pc,
                   lock, reactorVars, dropped, q_cqe_live, q_batch, lifeVars, std_ops>>

\* What io_uring_peek_cqe leaves: -EAGAIN and a null pointer on an empty
\* buffer, else 0 and a pointer to the record at the head.
PeekOutcome ==
    IF cq = <<>> THEN [ret |-> -11, null |-> TRUE] ELSE [ret |-> 0, null |-> FALSE]

\* Mutant of peek_cqe_is_some: neither the return code nor the pointer is
\* checked.
peek_cqe_unchecked(o) == TRUE

\* peek_cqe: None if ret < 0 || cqe.is_null(), else Some
peek_cqe_is_some(o) == ~(o.ret < 0 \/ o.null)

\* Cqe::user_data of the Cqe the caller holds: the Cqe points at the record
\* at the head.
cqe_user_data == Head(cq).user_data

\* Cqe::result of the Cqe the caller holds.
cqe_result == Head(cq).res

\* CompletionQueue::peek_cqe: a Cqe for the record at the head, or None.
PeekCqe ==
    /\ ~q_cqe_live
    /\ ~q_wait.blocked
    /\ q_cqe_live' = peek_cqe_is_some(PeekOutcome)
    /\ q_ret' = [call |-> "peek_cqe", some |-> peek_cqe_is_some(PeekOutcome),
                 n |-> IF cq # <<>> THEN cqe_result ELSE 0]
    /\ UNCHANGED <<ringVars, muxVars, op, user_data, output, scheduled, pc,
                   lock, reactorVars, dropped, q_batch, q_wait, lifeVars, std_ops>>

\* What io_uring_wait_cqe_timeout without a timeout leaves: an errno and a
\* null pointer, or, once there is a record, 0 and a pointer to the record
\* at the head.
WaitOutcomes ==
    {[ret |-> -1, null |-> TRUE]}
        \cup (IF cq # <<>> THEN {[ret |-> 0, null |-> FALSE]} ELSE {})

\* Mutant of wait_cqe_result: the return code is not looked at.
wait_cqe_trusts_pointer(o) == IF o.null THEN "CompletionQueueEmpty" ELSE "Ok"

\* wait_cqe: Err of the return code if ret < 0, Err(CompletionQueueEmpty) on
\* a null pointer, else Ok(Cqe).
wait_cqe_result(o) ==
    IF o.ret < 0 THEN "Err"
    ELSE IF o.null THEN "CompletionQueueEmpty" ELSE "Ok"

\* CompletionQueue::wait_cqe: blocks until a record is there and returns a
\* Cqe for it, or returns the error of the wait.
WaitCqe ==
    /\ ~q_cqe_live
    /\ ~q_wait.blocked
    /\ \E o \in WaitOutcomes :
        /\ q_cqe_live' = (wait_cqe_result(o) = "Ok")
        /\ q_ret' = [call |-> "wait_cqe", some |-> (wait_cqe_result(o) = "Ok"),
                     n |-> IF wait_cqe_result(o) = "Err" THEN o.ret
                           ELSE IF cq # <<>> THEN cqe_result ELSE 0]
    /\ UNCHANGED <<ringVars, muxVars, op, user_data, output, scheduled, pc,
                   lock, reactorVars, dropped, q_batch, q_wait, lifeVars, std_ops>>

\* Drop for Cqe: io_uring_cqe_seen retires the record at the head.
DropCqe ==
    /\ q_cqe_live
    /\ q_cqe_live' = FALSE
    /\ cq' = Tail(cq)
    /\ cq_head' = (cq_head + 1) % IdxModulus
    /\ q_batch' = Max(q_batch - 1, 0)
    /\ UNCHANGED <<sqVars, inflight, muxVars, op, user_data, output,
                   scheduled, pc, lock, reactorVars, dropped, q_ret,
                   q_wait, lifeVars, std_ops>>

\* CompletionQueue::peek_batch: raw pointers to the first records, as many
\* as the buffer takes; nothing retires them.
PeekBatch(len) ==
    /\ ~q_cqe_live
    /\ ~q_wait.blocked
    /\ q_batch' = Max(q_batch, Min(len, Len(cq)))
    /\ q_ret' = [call |-> "peek_batch", some |-> TRUE, n |-> Min(len, Len(cq))]
    /\ UNCHANGED <<ringVars, muxVars, op, user_data, output, scheduled, pc,
                   lock, reactorVars, dropped, q_cqe_live, q_wait, lifeVars, std_ops>>

\* -------------------------------------------- async-std: AsyncIoUring

\* submit_op borrows the AsyncIoUring mutably: a call starts when every
\* earlier future has resolved or has been dropped.  The closure is handed
\* to spawn_blocking and the caller awaits its result.
StdSubmitOp(f) ==
    /\ op[f] = "NotCreated"
    /\ \A g \in Futures :
          g < f => op[g] # "NotCreated" /\ (output[g].ready \/ g \in dropped)
    /\ op' = [op EXCEPT ![f] = "Some"]
    /\ pc' = [pc EXCEPT ![f] = "spawned"]
    /\ UNCHANGED <<ringVars, muxVars, user_data, output, scheduled, lock,
                   reactorVars, dropped, callerVars, lifeVars, std_ops>>

\* let user_data = 1u64
StdTag == 1 % TagModulus

\* No entry of the ring stems from a submit_op call of the async-std
\* multiplexer.
NoStdOps == [sq |-> <<>>, held |-> {}, cq |-> <<>>]

\* Every call stamps the same tag, so the tag does not tell the operations
\* apart: std_ops keeps, next to the ring, the call whose operation each
\* unflushed entry (sq), each operation the kernel holds (held) and each
\* completion record (cq) is.  The flush with return code ret of the
\* entries of calls fs.
StdFlush(fs, ret) ==
    IF ret >= 0
    THEN [sq |-> SubSeq(fs, ret + 1, Len(fs)),
          held |-> std_ops.held \cup {fs[i] : i \in 1..ret},
          cq |-> std_ops.cq]
    ELSE [sq |-> fs, held |-> std_ops.held, cq |-> std_ops.cq]

\* The closure on the blocking pool: takes the lock, acquires a slot, stamps
\* it and flushes; an error ends the closure, else it goes on to wait_cqe
\* with the lock held.
StdClosureStart(f) ==
    /\ pc[f] = "spawned"
    /\ lock = {}
    /\ op' = [op EXCEPT ![f] = "None"]
    /\ user_data' = [user_data EXCEPT ![f] = {StdTag}]
    /\ IF ~get_sqe_or_err_is_ok
       THEN /\ output' = [output EXCEPT ![f] = ReadyErr("SubmissionQueueFull")]
            /\ pc' = [pc EXCEPT ![f] = "idle"]
            /\ UNCHANGED <<ringVars, lock, std_ops>>
       ELSE \E ret \in SubmitRets(Len(SqAfterGet(StdTag).entries)) :
            /\ EnterKernel(SqAfterGet(StdTag), ret)
            /\ std_ops' = StdFlush(Append(std_ops.sq, f), ret)
            /\ UNCHANGED <<cq, cq_head>>
            /\ IF ~check_ret_is_ok(ret)
               THEN /\ output' = [output EXCEPT ![f] = ReadyErr("Io")]
                    /\ pc' = [pc EXCEPT ![f] = "idle"]
                    /\ UNCHANGED lock
               ELSE /\ pc' = [pc EXCEPT ![f] = "wait_cqe"]
                    /\ lock' = {f}
                    /\ UNCHANGED output
    /\ UNCHANGED <<muxVars, scheduled, reactorVars, dropped, callerVars, lifeVars>>

\* The kernel completes the operation of call f, one of those it holds: the
\* completion record carries the tag of the entry and a result code.
StdKernelComplete(f, r) ==
    /\ f \in std_ops.held
    /\ inflight' = [inflight EXCEPT ![StdTag] = @ - 1]
    /\ cq' = Append(cq, [user_data |-> StdTag, res |-> r])
    /\ std_ops' = [std_ops EXCEPT !.held = @ \ {f}, !.cq = Append(@, f)]
    /\ epoll_event' = TRUE
    /\ UNCHANGED <<sqVars, cq_head, muxVars, op, user_data, output, scheduled,
                   pc, lock, fd_ready, reader_waker, shutdown, dropped,
                   callerVars, lifeVars>>

\* The closure in wait_cqe: it returns Ok(cqe.result()) of the record at the
\* head, which is retired as the Cqe is dropped, or the error of the wait;
\* the lock is released as the closure ends.
StdWaitCqe(f) ==
    /\ pc[f] = "wait_cqe"
    /\ \E o \in WaitOutcomes :
        IF wait_cqe_result(o) = "Ok"
        THEN /\ output' = [output EXCEPT ![f] = ReadyOk(cqe_result)]
             /\ cq' = Tail(cq)
             /\ cq_head' = (cq_head + 1) % IdxModulus
             /\ std_ops' = [std_ops EXCEPT !.cq = Tail(@)]
        ELSE /\ output' = [output EXCEPT ![f] = ReadyErr("Io")]
             /\ UNCHANGED <<cq, cq_head, std_ops>>
    /\ pc' = [pc EXCEPT ![f] = "idle"]
    /\ lock' = {}
    /\ UNCHANGED <<sqVars, inflight, muxVars, op, user_data, scheduled,
                   reactorVars, dropped, callerVars, lifeVars>>

\* The caller drops the future of submit_op before it resolved; the closure
\* on the blocking pool runs on.
StdDrop(f) ==
    /\ op[f] # "NotCreated"
    /\ ~output[f].ready
    /\ f \notin dropped
    /\ dropped' = dropped \cup {f}
    /\ UNCHANGED <<ringVars, muxVars, op, user_data, output, scheduled, pc,
                   lock, reactorVars, callerVars, lifeVars, std_ops>>

\* ------------------------------------------------------- specifications

\* A ring as io_uring_queue_init leaves it and the multiplexer state as
\* AsyncIoUring::new builds it.
Fresh ==
    /\ sq_khead = 0
    /\ sq_sqe_tail = 0
    /\ sq_entries = <<>>
    /\ inflight = [t \in Tags |-> 0]
    /\ cq = <<>>
    /\ cq_head = 0
    /\ wakers = EmptyMap
    /\ next_user_data = 1 % TagModulus
    /\ op = [f \in Futures |-> "NotCreated"]
    /\ user_data = [f \in Futures |-> {}]
    /\ output = [f \in Futures |-> Pending]
    /\ scheduled = [f \in Futures |-> FALSE]
    /\ pc = [f \in Futures |-> "idle"]
    /\ lock = {}
    /\ fd_ready = FALSE
    /\ reader_waker = {}
    /\ epoll_event = FALSE
    /\ shutdown = FALSE
    /\ dropped = {}
    /\ q_ret = NoCall
    /\ q_cqe_live = FALSE
    /\ q_batch = 0
    /\ q_wait = NoWait
    /\ exit_calls = 0
    /\ teardown = <<>>
    /\ std_ops = NoStdOps

\* The state after a successful construction: the handle is the one owner.
Init ==
    /\ Fresh
    /\ created = "Ok"
    /\ init_rets = <<0>>
    /\ arcs = {0}

\* The state before AsyncIoUring::new is called.
LifeInit ==
    /\ Fresh
    /\ created = "NotCalled"
    /\ init_rets = <<>>
    /\ arcs = {}

\* The tokio multiplexer on one ring.
Next ==
    \/ \E f \in Futures : SubmitOp(f)
    \/ \E f \in Futures : PollStart(f)
    \/ \E f \in Futures : PollDrain(f)
    \/ \E f \in Futures : PollReadReady(f)
    \/ \E t \in Tags, r \in Results : KernelComplete(t, r)
    \/ ReactorDispatch
    \/ RuntimeShutdown

\* The executor polls every woken task, a poll runs to its end, the reactor
\* dispatches every event and the kernel completes every operation it holds.
Fairness ==
    /\ \A f \in Futures : WF_vars(PollStart(f))
    /\ \A f \in Futures : WF_vars(PollDrain(f))
    /\ \A f \in Futures : WF_vars(PollReadReady(f))
    /\ \A t \in Tags : WF_vars(\E r \in Results : KernelComplete(t, r))
    /\ WF_vars(ReactorDispatch)

Spec == Init /\ [][Next]_vars /\ Fairness

\* submit_op(..).await in a loop: the next future is created when the
\* one before it has resolved.
AwaitedSubmitOp(f) ==
    /\ \A g \in Futures : g < f => output[g].ready
    /\ SubmitOp(f)

\* The tokio multiplexer with its operations issued one at a time.
SeqNext ==
    \/ \E f \in Futures : AwaitedSubmitOp(f)
    \/ \E f \in Futures : PollStart(f)
    \/ \E f \in Futures : PollDrain(f)
    \/ \E f \in Futures : PollReadReady(f)
    \/ \E t \in Tags, r \in Results : KernelComplete(t, r)
    \/ ReactorDispatch
    \/ RuntimeShutdown

SeqSpec == Init /\ [][SeqNext]_vars /\ Fairness

\* Owners of the ring: the handle and the futures.
Owners == {0} \cup Futures

\* The tokio multiplexer from its construction to its teardown, with
\* futures the caller drops, on a runtime that stays up.  The result codes
\* play no part in who owns the ring: the kernel posts 0.
LifeNext ==
    \/ AsyncNew
    \/ \E o \in Owners : Release(o)
    \/ \E f \in Futures : SubmitOp(f)
    \/ \E f \in Futures : PollStart(f)
    \/ \E f \in Futures : PollDrain(f)
    \/ \E f \in Futures : PollReadReady(f)
    \/ \E t \in Tags : KernelComplete(t, 0)
    \/ ReactorDispatch

LifeSpec == LifeInit /\ [][LifeNext]_vars /\ Fairness

\* A caller using the queue views of one ring directly.
QueueNext ==
    \/ \E t \in UserTags : GetSqe(t)
    \/ Submit
    \/ PeekCqe
    \/ WaitCqe
    \/ DropCqe
    \/ \E len \in BatchLens : PeekBatch(len)
    \/ \E t \in Tags, r \in Results : KernelComplete(t, r)

QueueSpec == Init /\ [][QueueNext]_vars

\* A caller that flushes with submit_and_wait and reads the completions
\* without blocking.
WaitNext ==
    \/ \E t \in UserTags : GetSqe(t)
    \/ \E wait_nr \in WaitNrs : SubmitAndWaitEnter(wait_nr)
    \/ SubmitAndWaitReturn
    \/ PeekCqe
    \/ DropCqe
    \/ \E len \in BatchLens : PeekBatch(len)
    \/ \E t \in Tags, r \in Results : KernelComplete(t, r)

WaitSpec == Init /\ [][WaitNext]_vars

\* The async-std multiplexer on one ring.
StdNext ==
    \/ \E f \in Futures : StdSubmitOp(f)
    \/ \E f \in Futures : StdClosureStart(f)
    \/ \E f \in Futures : StdWaitCqe(f)
    \/ \E f \in Futures : StdDrop(f)
    \/ \E f \in Futures, r \in Results : StdKernelComplete(f, r)

StdSpec == Init /\ [][StdNext]_vars

\* ------------------------------------------------------------- claims

\* The future's operation has been flushed and the future has not resolved.
Submitted(f) == op[f] = "None" /\ ~output[f].ready

\* The position in q of the first completion carrying tag t, 0 when none.
FirstWithTag(q, t) ==
    IF \E i \in 1..Len(q) : q[i].user_data = t
    THEN CHOOSE i \in 1..Len(q) :
            /\ q[i].user_data = t
            /\ \A j \in 1..(i - 1) : q[j].user_data # t
    ELSE 0

\* Nothing fails: every flush hands every entry to the kernel, no future
\* resolves with an error and the reactor is up.
NoFailure ==
    /\ ~shutdown
    /\ sq_entries = <<>>
    /\ \A f \in Futures : output[f].ready => output[f].ok

\* C1: no lost wakeup.  When nothing fails, the kernel posts every
\* completion and the executor and the reactor are fair, every future whose
\* operation was flushed eventually returns Ready.
C1_NoLostWakeup ==
    ([]NoFailure) => \A f \in Futures : (Submitted(f) ~> output[f].ready)

\* C2: no completion is dropped once observed.  While an operation is
\* Submitted, its completion is still to come: its entry is unflushed, the
\* kernel holds it, or its completion record is in the completion buffer.
C2_NoCompletionDropped ==
    \A f \in Futures :
        (Submitted(f) /\ pc[f] = "idle") =>
            \/ \E i \in 1..Len(sq_entries) : sq_entries[i] = TheTag(f)
            \/ inflight[TheTag(f)] > 0
            \/ \E i \in 1..Len(cq) : cq[i].user_data = TheTag(f)

\* C3: a future returns Ready(Ok(r)) only in a poll whose drain read a
\* completion carrying the future's own tag, and r is the result code of
\* that record, which the poll retires.
C3_ResolvesOnlyWithOwnCompletion ==
    [][\A f \in Futures :
         (~output[f].ready /\ output'[f].ready /\ output'[f].ok) =>
            LET i == FirstWithTag(cq, TheTag(f)) IN
            /\ i > 0
            /\ cq[i].res = output'[f].val
            /\ cq' = SubSeq(cq, i + 1, Len(cq))]_vars

\* Witness of C3: two futures have resolved Ok with different result codes.
C3_Witness ==
    \E f, g \in Futures : output[f] = ReadyOk(-1) /\ output[g] = ReadyOk(0)

\* C4 as stated: the tags of the Submitted operations are pairwise distinct.
C4_TagsUnique ==
    \A f, g \in Futures :
        (f # g /\ Submitted(f) /\ Submitted(g)) => user_data[f] # user_data[g]

\* C4 as amended: the tags of the Submitted operations are pairwise distinct
\* as long as the counter has not issued more tags than it has values, that
\* is, until it wraps.
C4_TagsUniqueUntilWrap ==
    Cardinality({f \in Futures : user_data[f] # {}}) <= TagModulus => C4_TagsUnique

\* Witness of C4: two operations are Submitted, each with its record
\* registered under its own tag.
C4_Witness ==
    \E f, g \in Futures :
        /\ f # g /\ Submitted(f) /\ Submitted(g)
        /\ TheTag(f) \in DOMAIN wakers /\ wakers[TheTag(f)] = f
        /\ TheTag(g) \in DOMAIN wakers /\ wakers[TheTag(g)] = g

\* C8: a first activation that finds no free slot resolves at once with
\* SubmissionQueueFull; no record is registered, no entry is queued and
\* nothing is flushed to the kernel.
C8_BackpressureImmediate ==
    [][\A f \in Futures :
         (op[f] = "Some" /\ op'[f] = "None" /\ Len(sq_entries) = RingEntries) =>
            /\ output'[f] = ReadyErr("SubmissionQueueFull")
            /\ pc'[f] = "idle"
            /\ wakers' = wakers
            /\ UNCHANGED ringVars]_vars

\* Witness of C8: a future has resolved with SubmissionQueueFull.
C8_Witness == \E f \in Futures : output[f] = ReadyErr("SubmissionQueueFull")

\* C9: a drain that reads the own completion resolves with Ok(r), r the
\* record's result code, also when r is negative; a future resolves with an
\* error only on its first activation (slot acquisition, flush) or when
\* poll_read_ready fails.
C9_KernelFailureIsResult ==
    [][\A f \in Futures :
         /\ (pc[f] = "drain" /\ pc'[f] # "drain"
                /\ FirstWithTag(cq, TheTag(f)) > 0) =>
               output'[f] = ReadyOk(cq[FirstWithTag(cq, TheTag(f))].res)
         /\ (~output[f].ready /\ output'[f].ready /\ ~output'[f].ok) =>
               \/ op[f] = "Some"
               \/ pc[f] = "read_ready" /\ shutdown]_vars

\* Witness of C9: a future has resolved with Ok of a negative result code.
C9_Witness == \E f \in Futures : output[f] = ReadyOk(-1)

\* The slots of the entries between khead and sqe_tail.
PendingSlots ==
    {((sq_khead + i) % IdxModulus) % RingEntries : i \in 0..(Len(sq_entries) - 1)}

\* C5: get_sqe returns a slot exactly when fewer than RingEntries entries
\* are unconsumed, so from an empty queue the first RingEntries calls return
\* a slot and the next returns None; the slot handed out is none of the
\* slots of the unconsumed entries.
C5_BackpressureSignal ==
    [][\A t \in UserTags :
         GetSqe(t) =>
            /\ q_ret'.some <=> Len(sq_entries) < RingEntries
            /\ q_ret'.some =>
                  /\ q_ret'.n \notin PendingSlots
                  /\ sq_entries' = Append(sq_entries, t)
            /\ ~q_ret'.some => sq_entries' = sq_entries]_vars

\* Witness of C5: get_sqe returned None on a queue holding RingEntries
\* unflushed entries.
C5_Witness ==
    /\ q_ret.call = "get_sqe" /\ ~q_ret.some
    /\ Len(sq_entries) = RingEntries

\* C6: after submit returned Ok the next get_sqe returns a slot.
C6_SlotAfterFlush ==
    (q_ret.call = "submit" /\ q_ret.some) => get_sqe_is_some

\* Witness of C6: submit returned Ok for a queue that was filled to capacity.
C6_Witness ==
    q_ret.call = "submit" /\ q_ret.some /\ q_ret.n = RingEntries

\* C7: every completion record yielded to the caller is retired: once the
\* caller holds no Cqe, no record it was given is left in the buffer.
C7_RetiredExactlyOnce == ~q_cqe_live => q_batch = 0

\* C10: while the caller of submit_op is suspended awaiting the result, the
\* lock is not held for its operation.
C10_LockNotHeldWhileSuspended ==
    \A f \in Futures :
        (op[f] # "NotCreated" /\ ~output[f].ready
            /\ pc[f] \in {"idle", "spawned", "wait_cqe"}) => f \notin lock

\* C11: a ring that was created is torn down exactly once, in the step in
\* which its last owner (the handle, a future sharing it, or the local of a
\* constructor that fails later) lets go: io_uring_queue_exit has not been
\* called while an owner remains, has been called once when none remains,
\* and is never called twice, whether or not an operation was submitted.
C11_TeardownOnce ==
    /\ exit_calls <= 1
    /\ arcs # {} => exit_calls = 0
    /\ (created = "Ok" /\ arcs = {}) => exit_calls = 1
    /\ created = "ErrIo" => exit_calls = 1

\* Witness of C11: the ring has been torn down after an operation was
\* flushed on it and its future was dropped unresolved.
C11_Witness ==
    /\ created = "Ok" /\ arcs = {} /\ exit_calls = 1
    /\ \E f \in dropped : op[f] = "None"

\* C12: when a poll ends with Pending, the reactor holds this future's
\* waker for the next readiness event of the ring fd.
C12_ReactorAsked ==
    [][\A f \in Futures :
         (pc[f] = "read_ready" /\ pc'[f] = "idle" /\ ~output'[f].ready) =>
            f \in reader_waker']_vars

\* No completion is posted while a poll runs, and every readiness event is
\* dispatched before the next poll starts: the reactor is driven between
\* the polls, as on a current-thread runtime.
QuietPolls == lock # {} => ~epoll_event

\* C13: with the operations issued one at a time, when nothing fails, the
\* kernel posts every completion, after the poll that flushed it has
\* returned, and the executor and the reactor are fair, every flushed
\* operation eventually resolves with a result code.
C13_SequentialResolves ==
    ([](NoFailure /\ QuietPolls)) =>
        \A f \in Futures : (Submitted(f) ~> (output[f].ready /\ output[f].ok))

\* Future f's record is in the multiplexer's table.
HasRecord(f) ==
    /\ user_data[f] # {}
    /\ TheTag(f) \in DOMAIN wakers
    /\ wakers[TheTag(f)] = f

\* C14: the record of an operation whose future was dropped before it
\* resolved is not in the table.
C14_AbandonedRecordRemoved ==
    \A f \in dropped : ~HasRecord(f)

\* The completion of an operation whose future was dropped is in the
\* completion buffer.
AbandonedCompletionPosted ==
    \E g \in dropped :
        /\ user_data[g] # {}
        /\ \E i \in 1..Len(cq) : cq[i].user_data = TheTag(g)

\* The waker the reactor holds is not that of a dropped future.
ReactorHoldsLiveWaker == reader_waker \cap dropped = {}

\* The completion of every Submitted operation whose future lives is still
\* to come or in the completion buffer.
NoLiveCompletionLost ==
    \A f \in Futures \ dropped :
        (Submitted(f) /\ pc[f] = "idle") =>
            \/ \E i \in 1..Len(sq_entries) : sq_entries[i] = TheTag(f)
            \/ inflight[TheTag(f)] > 0
            \/ \E i \in 1..Len(cq) : cq[i].user_data = TheTag(f)

\* C15: the completion of an abandoned operation does not delay another
\* operation for ever.  When nothing fails, no completion is posted while a
\* poll runs, no live operation's completion is lost and the reactor's
\* waker is that of a live future, a Submitted operation whose drain pass
\* is about to read an abandoned operation's completion still resolves,
\* unless it is abandoned too.
C15_AbandonedDiscardedSafely ==
    ([](NoFailure /\ QuietPolls /\ NoLiveCompletionLost
            /\ ReactorHoldsLiveWaker)) =>
        \A f \in Futures :
            (Submitted(f) /\ pc[f] = "drain" /\ AbandonedCompletionPosted)
                ~> (output[f].ready \/ f \in dropped)

\* C16: wait_cqe returns in one of two ways: with a Cqe, and then a record
\* is in the completion buffer, or with the error of the failed wait; when
\* the wait did not fail it returns a Cqe.
C16_WaitReturnsCompletionOrOsError ==
    [][WaitCqe =>
         \/ q_ret'.some /\ q_cqe_live' /\ cq # <<>> /\ q_ret'.n = Head(cq).res
         \/ ~q_ret'.some /\ ~q_cqe_live' /\ q_ret'.n < 0]_vars

\* Witness of C16: wait_cqe has returned a Cqe for the oldest of two
\* records.
C16_Witness ==
    q_ret.call = "wait_cqe" /\ q_ret.some /\ q_cqe_live /\ Len(cq) = 2

\* C17: peek_cqe can be called whenever the caller holds no Cqe; on an
\* empty buffer it returns None, with a record there it returns a Cqe for
\* the record at the head; it leaves the buffer and its head as they are.
C17_PeekNeverBlocks ==
    [][/\ (~q_cqe_live /\ ~q_wait.blocked) => ENABLED PeekCqe
       /\ PeekCqe =>
            /\ UNCHANGED <<cq, cq_head>>
            /\ cq = <<>> => ~q_ret'.some /\ ~q_cqe_live'
            /\ cq # <<>> =>
                  q_ret'.some /\ q_cqe_live' /\ q_ret'.n = Head(cq).res]_vars

\* Witness of C17: peek_cqe has returned None on an empty buffer while the
\* kernel holds an operation.
C17_Witness ==
    /\ q_ret.call = "peek_cqe" /\ ~q_ret.some /\ cq = <<>>
    /\ \E t \in Tags : inflight[t] > 0

\* C18: when io_uring_queue_init returns a negative code the constructor
\* returns Err(Setup): no handle owns a ring, the setup is not called a
\* second time and io_uring_queue_exit is not called.
C18_SetupFailure ==
    (init_rets # <<>> /\ init_rets[1] < 0) =>
        /\ created = "ErrSetup"
        /\ Len(init_rets) = 1
        /\ arcs = {}
        /\ exit_calls = 0

\* Witness of C18: the constructor has returned Err(Setup).
C18_Witness == created = "ErrSetup" /\ init_rets = <<-1>>

\* The operations stamped with tag t that the caller has not read back:
\* unflushed entries, operations the kernel holds, completion records.
TagCount(t) ==
    Cardinality({i \in 1..Len(sq_entries) : sq_entries[i] = t})
        + inflight[t]
        + Cardinality({i \in 1..Len(cq) : cq[i].user_data = t})

C20_WaitedCompletionsAvailable ==
    [][(SubmitAndWaitReturn /\ q_ret'.some) => Len(cq') >= q_wait.nr]_vars

\* C21: in the async-std multiplexer a call that returns Ok(r) has read the
\* completion record of the operation it submitted itself, and r is that
\* record's result code.
C21_StdReturnsOwnResult ==
    [][\A f \in Futures :
         (pc[f] = "wait_cqe" /\ output'[f].ready /\ output'[f].ok) =>
            /\ Head(std_ops.cq) = f
            /\ output'[f].val = Head(cq).res]_vars

\* C22: no thread is blocked waiting for completions on behalf of
\* submit_op: no call sits in wait_cqe on an empty completion buffer.
C22_NoThreadBlocked ==
    \A f \in Futures : ~(pc[f] = "wait_cqe" /\ cq = <<>>)

\* C23: the drain pass of an activation reads every completion record
\* that is in the completion buffer, also those behind its own: when the
\* pass ends, to resolve or to go on to suspend, none is left unread.
C23_DrainsAllVisible ==
    [][\A f \in Futures :
         (pc[f] = "drain" /\ pc'[f] # "drain") => cq' = <<>>]_vars

\* The tags of the completion records a step retires from the head of the
\* completion buffer.
TagsRead == {cq[i].user_data : i \in 1..(Len(cq) - Len(cq'))}

\* C24 as stated: when a drain pass reads a completion whose tag has a
\* record belonging to a different operation, that operation is woken and
\* the record is removed, in the step that takes the pass to its own
\* resolve-or-suspend decision.
C24_ForeignWokenAndRemoved ==
    [][\A f \in Futures :
         PollDrain(f) =>
            \A t \in TagsRead \cap DOMAIN wakers :
                wakers[t] # f =>
                    /\ t \notin DOMAIN wakers'
                    /\ ~output[wakers[t]].ready => scheduled'[wakers[t]]]_vars

\* C24 as amended: the same for a completion whose tag is not the draining
\* operation's own tag.  The record is removed on the first read, so a later
\* record under the tag wakes nobody; no other record is touched and no
\* other task is woken; the woken operation, when it is polled again, goes
\* into its own drain pass.
C24_ForeignTagWokenAndRemoved ==
    [][\A f \in Futures :
         /\ PollDrain(f) =>
               /\ \A t \in (TagsRead \cap DOMAIN wakers) \ {TheTag(f)} :
                     /\ t \notin DOMAIN wakers'
                     /\ ~output[wakers[t]].ready => scheduled'[wakers[t]]
               /\ \A t \in DOMAIN wakers \ TagsRead :
                     t \in DOMAIN wakers' /\ wakers'[t] = wakers[t]
               /\ \A g \in Futures :
                     (scheduled'[g] /\ ~scheduled[g]) =>
                        \E t \in TagsRead \cap DOMAIN wakers : wakers[t] = g
         /\ (op[f] = "None" /\ pc[f] = "idle" /\ pc'[f] # "idle") =>
               pc'[f] = "drain"]_vars

\* Witness of C24: a suspended operation has been woken by another
\* operation's drain pass, not by the reactor, which still holds its waker:
\* it is on the run queue and its record is gone from the table.
C24_Witness ==
    \E g \in Futures :
        /\ Submitted(g) /\ pc[g] = "idle" /\ scheduled[g]
        /\ g \in reader_waker
        /\ TheTag(g) \notin DOMAIN wakers

\* What a drain pass that reads only discarded completions leaves: the
\* table, the tag counter and every operation as they were, nobody woken,
\* every record retired and the pass on its way to suspend.
DiscardedSilently(f) ==
    /\ UNCHANGED <<wakers, next_user_data, op, user_data, output, scheduled>>
    /\ cq' = <<>>
    /\ cq_head' = (cq_head + Len(cq)) % IdxModulus
    /\ pc' = [pc EXCEPT ![f] = "read_ready"]

\* C25 as stated: a drain pass that reads only completions whose tags have
\* no record in the table retires and discards them and changes nothing
\* else.
C25_UnregisteredDiscarded ==
    [][\A f \in Futures :
         (PollDrain(f) /\ cq # <<>>
             /\ \A i \in 1..Len(cq) : cq[i].user_data \notin DOMAIN wakers) =>
            DiscardedSilently(f)]_vars

\* C25 as amended: the same for completions whose tags have no record and
\* are not the draining operation's own tag.
C25_UnregisteredForeignDiscarded ==
    [][\A f \in Futures :
         (PollDrain(f) /\ cq # <<>>
             /\ \A i \in 1..Len(cq) :
                   cq[i].user_data \notin DOMAIN wakers \cup {TheTag(f)}) =>
            DiscardedSilently(f)]_vars

\* Witness of C25: the operation of a future that resolved with the error
\* of its flush, and so never registered a record, has been flushed by a
\* later call and completed, and a drain pass has read its completion:
\* nothing is left under its tag, which no other future carries, and a pass
\* that emptied the buffer is on its way to suspend.
C25_Witness ==
    \E f, g \in Futures :
        /\ output[g] = ReadyErr("Io") /\ user_data[g] # {}
        /\ TagCount(TheTag(g)) = 0
        /\ \A h \in Futures \ {g} : user_data[h] # user_data[g]
        /\ cq_head > 0
        /\ pc[f] = "read_ready" /\ cq = <<>>

\* C26: an operation moves only along Unsubmitted -> Submitted(tag) ->
\* Resolved | Abandoned.  The future gives its operation away once, in its
\* first activation, which is the only step that assigns its tag and the
\* only one that writes a submission slot, one slot; no other step adds an
\* entry to the submission queue, and an entry the kernel consumes leaves
\* it, so no operation is flushed twice; a resolved future and an abandoned
\* one do not move again.
C26_OperationLifecycle ==
    [][/\ \/ op' = op
          \/ \E f \in Futures :
                /\ op[f] # "None"
                /\ op' = [op EXCEPT ![f] = IF op[f] = "NotCreated"
                                           THEN "Some" ELSE "None"]
       /\ \/ user_data' = user_data
          \/ \E f \in Futures :
                /\ user_data[f] = {} /\ op[f] = "Some" /\ op'[f] = "None"
                /\ user_data' = [user_data EXCEPT ![f] = user_data'[f]]
       /\ \/ output' = output
          \/ \E f \in Futures :
                /\ ~output[f].ready /\ f \notin dropped /\ op'[f] = "None"
                /\ output' = [output EXCEPT ![f] = output'[f]]
       /\ \/ pc' = pc
          \/ \E f \in Futures :
                /\ ~output[f].ready /\ f \notin dropped
                /\ pc' = [pc EXCEPT ![f] = pc'[f]]
       /\ dropped \subseteq dropped'
       /\ IF sq_sqe_tail' = sq_sqe_tail
          THEN Len(sq_entries') + ((sq_khead' - sq_khead) % IdxModulus)
                  = Len(sq_entries)
          ELSE /\ \E f \in Futures : op[f] = "Some" /\ op'[f] = "None"
               /\ sq_sqe_tail' = (sq_sqe_tail + 1) % IdxModulus
               /\ Len(sq_entries') + ((sq_khead' - sq_khead) % IdxModulus)
                     = Len(sq_entries) + 1]_vars

\* Witness of C26: an operation is in a later activation (a future created
\* after it has had its first one since), with one operation under its tag
\* as before, and that later future has been abandoned after its flush.
C26_Witness ==
    \E f \in Futures :
        /\ Submitted(f) /\ pc[f] = "drain"
        /\ TagCount(TheTag(f)) = 1
        /\ \E g \in dropped : g > f /\ op[g] = "None"

\* C27: whenever a poll returns Pending (the future lets go of the lock
\* without having resolved), the table maps the future's own tag to its
\* waker.
C27_RegisteredOnPending ==
    [][\A f \in Futures :
         (f \in lock /\ f \notin lock' /\ ~output'[f].ready) =>
            /\ user_data'[f] # {}
            /\ user_data'[f] \subseteq DOMAIN wakers'
            /\ \A t \in user_data'[f] : wakers'[t] = f]_vars

\* Witness of C27: a future is suspended with its record in the table
\* although nothing is left under its tag: another operation's drain pass
\* read its completion and removed its record, and the future, woken, has
\* registered again before it returned Pending.
C27_Witness ==
    \E f \in Futures :
        /\ Submitted(f) /\ pc[f] = "idle" /\ ~scheduled[f]
        /\ HasRecord(f)
        /\ TagCount(TheTag(f)) = 0

\* The tags issued so far are 1, 2, ... in the order of the first
\* activations, modulo the width of the counter, and the counter is one
\* past the last of them.
TagsInOrder ==
    /\ \A f \in Futures : user_data[f] # {} => user_data[f] = {f % TagModulus}
    /\ next_user_data =
          (1 + Cardinality({f \in Futures : user_data[f] # {}})) % TagModulus

\* C28: the tag counter starts at 1; a first activation takes the counter's
\* value as its tag and advances the counter by one, modulo its width,
\* whether or not the slot acquisition and the flush succeed; no other step
\* changes the counter.
C28_TagAllocationMonotonic ==
    [][/\ \A f \in Futures :
            (op[f] = "Some" /\ op'[f] = "None") =>
                /\ user_data'[f] = {next_user_data}
                /\ next_user_data' = (next_user_data + 1) % TagModulus
       /\ (\A f \in Futures : ~(op[f] = "Some" /\ op'[f] = "None")) =>
            next_user_data' = next_user_data
       /\ TagsInOrder /\ TagsInOrder']_vars

\* Witness of C28: the first activation of the first future failed in its
\* flush, the second future took the next tag, and the counter has wrapped.
C28_Witness ==
    /\ output[1] = ReadyErr("Io") /\ user_data[1] = {1 % TagModulus}
    /\ user_data[2] = {2 % TagModulus}
    /\ Cardinality({f \in Futures : user_data[f] # {}}) >= TagModulus

\* C29: the operations in flight through the multiplexer, those that were
\* flushed with a record registered and have not resolved, are never more
\* than the ring has submission entries.
C29_InFlightWithinCapacity ==
    Cardinality({f \in Futures : Submitted(f)}) <= RingEntries

\* C30: space_left, computed from the wrapping difference of the indices,
\* is the number of entries of the ring that are not in use; it lies
\* between 0 and the number of entries; is_full holds exactly when it is 0,
\* and get_sqe returns None exactly when is_full holds.
C30_SpaceLeft ==
    /\ space_left = RingEntries - Len(sq_entries)
    /\ 0 <= space_left /\ space_left <= RingEntries
    /\ is_full <=> space_left = 0
    /\ is_full <=> Len(sq_entries) = RingEntries
    /\ get_sqe_is_some <=> ~is_full

\* Witness of C30: get_sqe has returned None on a full queue whose tail
\* index has wrapped while its head index has not.
C30_Witness ==
    /\ q_ret.call = "get_sqe" /\ ~q_ret.some
    /\ is_full
    /\ sq_sqe_tail < sq_khead

\* C31: peek_batch with a buffer of len pointers returns the smaller of len
\* and the number of records in the completion buffer and retires none; and
\* when submit_and_wait(N) has flushed N operations and returned Ok,
\* peek_batch with a buffer of N returns N.
C31_PeekBatchCount ==
    [][/\ \A len \in BatchLens :
            PeekBatch(len) =>
                /\ q_ret'.n = Min(len, Len(cq))
                /\ UNCHANGED <<cq, cq_head>>
       /\ (SubmitAndWaitReturn /\ q_ret'.some /\ q_ret'.n = q_wait.nr) =>
            Min(q_wait.nr, Len(cq')) = q_wait.nr]_vars

\* C32: every record in the table is that of an operation that is
\* Submitted: registered under the future's own tag, the future not yet
\* resolved.
C32_RecordsAreSubmitted ==
    \A t \in DOMAIN wakers :
        Submitted(wakers[t]) /\ user_data[wakers[t]] = {t}

\* C33: the kernel never takes the operation of a future that has resolved
\* with the error of its first activation.  While the reactor is up, the
\* only errors are those of first activations: every entry the kernel
\* takes then carries the tag of a future that had not resolved before the
\* flush.
C33_FailedNeverExecuted ==
    [][~shutdown =>
         \A t \in Tags :
            inflight'[t] > inflight[t] =>
                \E f \in Futures : user_data'[f] = {t} /\ ~output[f].ready]_vars

\* Future f is the only one that was issued its tag.
TagUnshared(f) ==
    \A h \in Futures \ {f} : user_data[h] # user_data[f]

\* C34: a drain pass of another operation never reads the completion of a
\* live operation before that operation's record was registered.  When a
\* pass reads a completion whose tag is that of a flushed, unresolved
\* operation of another future (the only one with that tag), the record is
\* in the table, or it was there and a pass that read an earlier completion
\* under the tag has taken it and woken the future, which has not been
\* polled since.
C34_RegisteredBeforeSeen ==
    [][\A g \in Futures :
         PollDrain(g) =>
            \A f \in Futures \ {g} :
                (Submitted(f) /\ TagUnshared(f) /\ user_data[f] \subseteq TagsRead) =>
                    (HasRecord(f) \/ scheduled[f])]_vars

\* Witness of C34: a drain pass has read the completion of another, live
\* operation and has woken it through its record; the pass is on its way
\* to suspend and the woken future has not been polled yet.
C34_Witness ==
    \E f, g \in Futures :
        /\ f # g /\ pc[g] = "read_ready"
        /\ Submitted(f) /\ TagUnshared(f) /\ scheduled[f]
        /\ ~HasRecord(f)
        /\ TagCount(TheTag(f)) = 0

\* C35: when the reactor refuses the ring fd in AsyncIoUring::new, the
\* call returns an error, the ring that io_uring_queue_init had set up has
\* been torn down by one io_uring_queue_exit, nobody owns it and no
\* operation is ever started on it.
C35_FailedRegistrationTearsDown ==
    created = "ErrIo" =>
        /\ init_rets = <<0>>
        /\ exit_calls = 1
        /\ arcs = {}
        /\ \A f \in Futures : op[f] = "NotCreated"
        /\ wakers = EmptyMap /\ sq_entries = <<>> /\ cq = <<>>

\* Witness of C35: the constructor has returned Err(Io) after a successful
\* setup of the ring.
C35_Witness == created = "ErrIo" /\ init_rets = <<0>> /\ exit_calls = 1

\* C36: on teardown the ring fd is taken out of the reactor before
\* io_uring_queue_exit closes it.
C36_DeregisteredBeforeExit ==
    \A i, j \in 1..Len(teardown) :
        (teardown[i] = "deregister" /\ teardown[j] = "queue_exit") => i < j

====
